---- MODULE Spec2Model ----
(***************************************************************************)
(* Model of the bulk e-mail sender (email_sender_bot.py):                   *)
(*   EmailSenderBot.read_recipients_from_csv   the recipient loader         *)
(*   EmailSenderBot.create_email_message       the message renderer         *)
(*   EmailSenderBot.send_email_with_retry      the retry/backoff controller *)
(*   EmailSenderBot.send_bulk_emails           the bulk dispatch loop       *)
(*   EmailSenderBot.generate_report, main      the report and the run       *)
(* Strings are tuples of one-character strings, so that "contains '@'" is   *)
(* computed.  A row is a record whose DOMAIN is the set of its columns.     *)
(***************************************************************************)
EXTENDS Integers, Sequences, FiniteSets, TLC

VARIABLES
    pc,           \* position of the single thread of control
    source,       \* state of the CSV path: "ok", "missing" or "unreadable"
    csv_rows,     \* the rows csv.DictReader yields for the file
    rowIdx,       \* read_recipients_from_csv: index of the next row
    recipients,   \* the list read_recipients_from_csv builds / send_bulk_emails gets
    i,            \* send_bulk_emails: enumerate(recipients, 1) index
    stats,        \* send_bulk_emails: the stats dictionary
    max_retries,  \* send_email_with_retry: parameter
    attempt,      \* send_email_with_retry: loop variable of range(max_retries)
    retval,       \* send_email_with_retry: returned value
    openConns,    \* number of smtplib.SMTP connections that are open
    outcomes,     \* history: outcome of every attempt of the current call
    waits,        \* history: backoff sleeps of the current call
    sendLog,      \* history: for every attempt of the run, the index i it was for
    results,      \* history: per processed recipient, its address, whether a message
                  \* was rendered and whether an attempt transmitted it
    pauses,       \* history: indices i after which time.sleep(delay) ran
    logged,       \* kinds of log events emitted so far
    printed,      \* generate_report: the report printed (<<>> when none yet)
    saved         \* generate_report: the report written to the file (<<>> when none)

vars == <<pc, source, csv_rows, rowIdx, recipients, i, stats, max_retries, attempt,
          retval, openConns, outcomes, waits, sendLog, results, pauses, logged,
          printed, saved>>

(***************************************************************************)
(* Bounds and program constants                                            *)
(***************************************************************************)
MaxRows == 3            \* longest CSV file
MaxRecipients == 3      \* longest list handed to send_bulk_emails directly
MaxRetriesBound == 4    \* largest max_retries of a direct send_email_with_retry call
DefaultMaxRetries == 3  \* max_retries: int = 3

(***************************************************************************)
(* Values                                                                  *)
(***************************************************************************)
Unknown == <<"U", "n", "k", "n", "o", "w", "n">>

\* rows a loader keeps
ValidRows ==
    { [email |-> <<"a", "@">>, name |-> <<"N">>],
      [email |-> <<"@", "b">>, name |-> <<"N">>],
      [email |-> <<"a", "@">>] }

\* rows a loader must skip: no email column, empty email, email without '@'
InvalidRows ==
    { [name |-> <<"N">>],
      [email |-> <<>>, name |-> <<"N">>],
      [email |-> <<"a">>, name |-> <<"N">>] }

RowValues == ValidRows \cup InvalidRows

\* records send_bulk_emails may be handed directly
RecipientValues == ValidRows \cup { [name |-> <<"N">>] }

SeqsUpTo(S, n) == UNION { [1..k -> S] : k \in 0..n }

\* "Hi {name}" / "Hello {name}!": the fields the templates reference
TemplateFields == {"name"}

\* what one attempt can end in
Outcomes == {"Sent", "SMTPRecipientsRefused", "SMTPSenderRefused",
             "SMTPAuthenticationError", "OtherError"}

NoStats == [total |-> 0, success |-> 0, failed |-> 0, failed_recipients |-> <<>>]

(***************************************************************************)
(* Helpers                                                                 *)
(***************************************************************************)
\* '@' in s
ContainsAt(s) == \E k \in 1..Len(s) : s[k] = "@"

RECURSIVE SeqSum(_)
SeqSum(s) == IF s = <<>> THEN 0 ELSE s[1] + SeqSum(Tail(s))

\* number of entries of s equal to x
RECURSIVE CountOf(_, _)
CountOf(s, x) ==
    IF s = <<>> THEN 0 ELSE (IF s[1] = x THEN 1 ELSE 0) + CountOf(Tail(s), x)

(***************************************************************************)
(* read_recipients_from_csv                                                *)
(***************************************************************************)
\* open(csv_file) succeeds
CanOpen(src) == src = "ok"

\* line 109: 'email' not in row
MissingEmailField(row) == "email" \notin DOMAIN row

\* fault: the '@' test is left out
InvalidEmailNoAtCheck(row) == row.email = <<>>
\* line 113: not row['email'] or '@' not in row['email']
InvalidEmail(row) == row.email = <<>> \/ ~ContainsAt(row.email)

\* lines 108-118: one iteration of the loop over the rows
LoadOneRow(acc, row) ==
    IF MissingEmailField(row) THEN acc
    ELSE IF InvalidEmail(row) THEN acc
    ELSE Append(acc, row)

\* the log event of one iteration
LoadRowEvent(row) ==
    IF MissingEmailField(row) THEN "row_missing_email"
    ELSE IF InvalidEmail(row) THEN "row_invalid_email"
    ELSE "row_loaded"

\* lines 102-105, 123-128: open the file; a failure returns []
LoadOpen ==
    /\ pc = "load_open"
    /\ recipients' = <<>>
    /\ rowIdx' = 1
    /\ IF CanOpen(source)
       THEN /\ pc' = "load_rows"
            /\ logged' = logged
       ELSE /\ pc' = "load_return"
            /\ logged' = logged \cup {"csv_error"}
    /\ UNCHANGED <<source, csv_rows, i, stats, max_retries, attempt, retval, openConns,
                   outcomes, waits, sendLog, results, pauses, printed, saved>>

\* lines 108-118
LoadRow ==
    /\ pc = "load_rows"
    /\ rowIdx <= Len(csv_rows)
    /\ recipients' = LoadOneRow(recipients, csv_rows[rowIdx])
    /\ logged' = logged \cup {LoadRowEvent(csv_rows[rowIdx])}
    /\ rowIdx' = rowIdx + 1
    /\ UNCHANGED <<pc, source, csv_rows, i, stats, max_retries, attempt, retval,
                   openConns, outcomes, waits, sendLog, results, pauses, printed, saved>>

\* lines 120-121
LoadReturn ==
    /\ pc = "load_rows"
    /\ rowIdx > Len(csv_rows)
    /\ pc' = "load_return"
    /\ logged' = logged \cup {"csv_loaded"}
    /\ UNCHANGED <<source, csv_rows, rowIdx, recipients, i, stats, max_retries, attempt,
                   retval, openConns, outcomes, waits, sendLog, results, pauses,
                   printed, saved>>

(***************************************************************************)
(* create_email_message                                                    *)
(***************************************************************************)
\* fault: a message is built although the record lacks a field
CreateAlways(recipient) ==
    <<[To |-> IF "email" \in DOMAIN recipient THEN recipient.email ELSE Unknown]>>
\* lines 144-170: <<msg>>, or <<>> for None.  subject.format(**recipient) raises
\* KeyError for a referenced field the record lacks, msg['To'] = recipient['email']
\* for a record without email; the except clause turns either into None.
create_email_message(recipient) ==
    IF TemplateFields \subseteq DOMAIN recipient /\ "email" \in DOMAIN recipient
    THEN <<[To |-> recipient.email]>>
    ELSE <<>>

(***************************************************************************)
(* send_email_with_retry                                                   *)
(***************************************************************************)
\* fault: SMTPSenderRefused is not caught on its own
IsRefusedRecipientOnly(o) == o = "SMTPRecipientsRefused"
\* lines 216-221: the exceptions that return False at once
IsRefused(o) == o \in {"SMTPRecipientsRefused", "SMTPSenderRefused"}

\* fault: 2 * attempt in place of 2 ** attempt
BackoffLinear(a) == 2 * a
\* line 224: wait_time = 2 ** attempt
BackoffSeconds(a) == 2 ^ a

\* line 223: attempt < max_retries - 1
SleepsBeforeNext(a, m) == a < m - 1

\* the log event of a failed attempt
FailureEvent(o, a, m) ==
    IF o = "SMTPRecipientsRefused" THEN "recipient_refused"
    ELSE IF o = "SMTPSenderRefused" THEN "sender_refused"
    ELSE IF SleepsBeforeNext(a, m) THEN "retry_warning"
    ELSE "gave_up"

\* line 208: smtplib.SMTP(...) of the with statement opens a connection
OpenConnection(c) == c + 1

\* fault: the connection is closed only after a successful send
CloseOnSuccessOnly(c, o) == IF o = "Sent" THEN c - 1 ELSE c
\* lines 208-211: leaving the with block closes the connection, whether the
\* block ended normally or raised
CloseConnection(c, o) == c - 1

\* fault: range(max_retries + 1)
RangeOneMore(a, m) == a <= m
\* line 206: range(max_retries) has an element for attempt a
RangeHasNext(a, m) == a < m

\* line 206: the head of "for attempt in range(max_retries)"; line 236 when exhausted
RetryLoop ==
    /\ pc = "retry_loop"
    /\ IF RangeHasNext(attempt, max_retries)
       THEN /\ pc' = "retry_connect"
            /\ retval' = retval
       ELSE /\ pc' = "retry_return"
            /\ retval' = FALSE
    /\ UNCHANGED <<source, csv_rows, rowIdx, recipients, i, stats, max_retries, attempt,
                   openConns, outcomes, waits, sendLog, results, pauses, logged,
                   printed, saved>>

\* lines 213-234: what follows an attempt that ended in outcome o
AfterAttempt(o) ==
    /\ outcomes' = Append(outcomes, o)
    /\ IF o = "Sent"
       THEN /\ logged' = logged \cup {"sent"}
            /\ retval' = TRUE
            /\ pc' = "retry_return"
            /\ UNCHANGED <<attempt, waits>>
       ELSE IF IsRefused(o)
       THEN /\ logged' = logged \cup {FailureEvent(o, attempt, max_retries)}
            /\ retval' = FALSE
            /\ pc' = "retry_return"
            /\ UNCHANGED <<attempt, waits>>
       ELSE /\ logged' = logged \cup {FailureEvent(o, attempt, max_retries)}
            /\ retval' = retval
            /\ IF SleepsBeforeNext(attempt, max_retries)
               THEN /\ pc' = "retry_sleep"
                    /\ waits' = Append(waits, [after |-> attempt + 1,
                                               secs |-> BackoffSeconds(attempt)])
                    /\ attempt' = attempt
               ELSE /\ pc' = "retry_loop"
                    /\ waits' = waits
                    /\ attempt' = attempt + 1

\* line 208: smtplib.SMTP(server, port) connects, or raises (an OSError, a
\* timeout, SMTPConnectError), which line 222 catches
RetryConnect ==
    /\ pc = "retry_connect"
    /\ sendLog' = Append(sendLog, i)
    /\ \E ok \in BOOLEAN :
         IF ok
         THEN /\ openConns' = OpenConnection(openConns)
              /\ pc' = "retry_session"
              /\ UNCHANGED <<outcomes, logged, retval, attempt, waits>>
         ELSE /\ openConns' = openConns
              /\ AfterAttempt("OtherError")
    /\ UNCHANGED <<source, csv_rows, rowIdx, recipients, i, stats, max_retries,
                   results, pauses, printed, saved>>

\* lines 209-211 and the end of the with block, which closes the connection
RetrySession ==
    /\ pc = "retry_session"
    /\ \E o \in Outcomes :
         /\ openConns' = CloseConnection(openConns, o)
         /\ AfterAttempt(o)
    /\ UNCHANGED <<source, csv_rows, rowIdx, recipients, i, stats, max_retries,
                   sendLog, results, pauses, printed, saved>>

\* line 229: time.sleep(wait_time) returns, the loop goes on
RetryWake ==
    /\ pc = "retry_sleep"
    /\ attempt' = attempt + 1
    /\ pc' = "retry_loop"
    /\ UNCHANGED <<source, csv_rows, rowIdx, recipients, i, stats, max_retries, retval,
                   openConns, outcomes, waits, sendLog, results, pauses, logged,
                   printed, saved>>

(***************************************************************************)
(* send_bulk_emails                                                        *)
(***************************************************************************)
\* line 266: recipient.get('email', 'Unknown')
RecipientEmail(recipient) ==
    IF "email" \in DOMAIN recipient THEN recipient.email ELSE Unknown

\* line 280
RecordSuccess(st) == [st EXCEPT !.success = @ + 1]

\* fault: the address is not appended
RecordFailedNoAppend(st, email) == [st EXCEPT !.failed = @ + 1]
\* fault: the address is inserted at the front
RecordFailedPrepend(st, email) ==
    [st EXCEPT !.failed = @ + 1, !.failed_recipients = <<email>> \o @]
\* lines 274-275 and 282-283
RecordFailed(st, email) ==
    [st EXCEPT !.failed = @ + 1, !.failed_recipients = Append(@, email)]

\* fault: i <= len(recipients), a delay after the last recipient too
DelayAfterAll(idx, n) == idx <= n
\* line 286: i < len(recipients)
DelayAfter(idx, n) == idx < n

\* fault: the loop leaves out the last recipient
LoopStopsEarly(idx, n) == idx < n
\* line 265: enumerate(recipients, 1) has an element for index idx
LoopHasNext(idx, n) == idx <= n

\* fault: the loop index does not advance
NextIndexStays(idx) == idx
\* line 265: enumerate(recipients, 1) yields the following index
NextIndex(idx) == idx + 1

\* the last attempt of the call transmitted the message
LastIsSent(os) == os # <<>> /\ os[Len(os)] = "Sent"

\* lines 254-259
BulkStart ==
    /\ pc = "bulk_start"
    /\ stats' = [total |-> Len(recipients), success |-> 0, failed |-> 0,
                 failed_recipients |-> <<>>]
    /\ i' = 1
    /\ pc' = "bulk_loop"
    /\ UNCHANGED <<source, csv_rows, rowIdx, recipients, max_retries, attempt, retval,
                   openConns, outcomes, waits, sendLog, results, pauses, logged,
                   printed, saved>>

\* line 265: next recipient, or line 289: return stats
BulkLoop ==
    /\ pc = "bulk_loop"
    /\ pc' = IF LoopHasNext(i, Len(recipients)) THEN "bulk_render" ELSE "bulk_return"
    /\ UNCHANGED <<source, csv_rows, rowIdx, recipients, i, stats, max_retries, attempt,
                   retval, openConns, outcomes, waits, sendLog, results, pauses, logged,
                   printed, saved>>

\* lines 266-279: render; None is counted as failed and the loop continues,
\* a message is handed to send_email_with_retry(msg, recipient_email)
BulkRender ==
    /\ pc = "bulk_render"
    /\ LET recipient == recipients[i]
           msg == create_email_message(recipient)
       IN IF msg = <<>>
          THEN /\ stats' = RecordFailed(stats, RecipientEmail(recipient))
               /\ results' = Append(results, [email |-> RecipientEmail(recipient),
                                              rendered |-> FALSE, sent |-> FALSE])
               /\ logged' = logged \cup {"render_error"}
               /\ i' = NextIndex(i)
               /\ pc' = "bulk_loop"
               /\ UNCHANGED <<max_retries, attempt, outcomes, waits>>
          ELSE /\ max_retries' = DefaultMaxRetries
               /\ attempt' = 0
               /\ outcomes' = <<>>
               /\ waits' = <<>>
               /\ pc' = "retry_loop"
               /\ UNCHANGED <<stats, results, logged, i>>
    /\ UNCHANGED <<source, csv_rows, rowIdx, recipients, retval, openConns, sendLog,
                   pauses, printed, saved>>

\* lines 279-287: count the result of send_email_with_retry, then the delay;
\* the locals of the call that returned are gone
BulkAccount ==
    /\ pc = "retry_return"
    /\ LET email == RecipientEmail(recipients[i])
       IN /\ stats' = IF retval THEN RecordSuccess(stats) ELSE RecordFailed(stats, email)
          /\ results' = Append(results, [email |-> email, rendered |-> TRUE,
                                         sent |-> LastIsSent(outcomes)])
    /\ IF DelayAfter(i, Len(recipients))
       THEN /\ pc' = "bulk_delay"
            /\ pauses' = pauses \cup {i}
            /\ i' = i
       ELSE /\ pc' = "bulk_loop"
            /\ pauses' = pauses
            /\ i' = NextIndex(i)
    /\ attempt' = 0
    /\ retval' = FALSE
    /\ outcomes' = <<>>
    /\ waits' = <<>>
    /\ UNCHANGED <<source, csv_rows, rowIdx, recipients, max_retries, openConns, sendLog,
                   logged, printed, saved>>

\* line 287: time.sleep(delay) returns
BulkWake ==
    /\ pc = "bulk_delay"
    /\ i' = NextIndex(i)
    /\ pc' = "bulk_loop"
    /\ UNCHANGED <<source, csv_rows, rowIdx, recipients, stats, max_retries, attempt,
                   retval, openConns, outcomes, waits, sendLog, results, pauses, logged,
                   printed, saved>>

(***************************************************************************)
(* generate_report and main                                                *)
(***************************************************************************)
\* line 300: the success rate, in tenths of a percent
SuccessRate(st) ==
    IF st.total > 0 THEN (2000 * st.success + st.total) \div (2 * st.total) ELSE 0

\* fault: the report shows the counts the statistics started with
ReportOfInitial(st) ==
    [total |-> st.total, success |-> 0, failed |-> 0, rate |-> 0,
     failed_recipients |-> <<>>]
\* lines 293-309: the report text, as the values it shows
ReportOf(st) ==
    [total |-> st.total, success |-> st.success, failed |-> st.failed,
     rate |-> SuccessRate(st), failed_recipients |-> st.failed_recipients]

\* lines 335-337: authenticate() fails and main returns, or succeeds
MainAuth ==
    /\ pc = "main_auth"
    /\ \E ok \in BOOLEAN :
         /\ pc' = IF ok THEN "main_csv" ELSE "main_exit"
         /\ logged' = logged \cup {IF ok THEN "authenticated" ELSE "auth_failed"}
    /\ UNCHANGED <<source, csv_rows, rowIdx, recipients, i, stats, max_retries, attempt,
                   retval, openConns, outcomes, waits, sendLog, results, pauses,
                   printed, saved>>

\* lines 342-347: os.path.exists(csv_file)
MainCsv ==
    /\ pc = "main_csv"
    /\ pc' = IF source = "missing" THEN "main_exit" ELSE "load_open"
    /\ UNCHANGED <<source, csv_rows, rowIdx, recipients, i, stats, max_retries, attempt,
                   retval, openConns, outcomes, waits, sendLog, results, pauses, logged,
                   printed, saved>>

\* lines 349-401: no recipients, or the user does not confirm: main returns
MainConfirm ==
    /\ pc = "load_return"
    /\ IF recipients = <<>>
       THEN pc' = "main_exit"
       ELSE \E confirm \in BOOLEAN : pc' = IF confirm THEN "bulk_start" ELSE "main_exit"
    /\ UNCHANGED <<source, csv_rows, rowIdx, recipients, i, stats, max_retries, attempt,
                   retval, openConns, outcomes, waits, sendLog, results, pauses, logged,
                   printed, saved>>

\* lines 412-418 and 291-321: generate_report(stats, report_file); the write of
\* the file may raise, which lines 320-321 log
MainReport ==
    /\ pc = "bulk_return"
    /\ printed' = <<ReportOf(stats)>>
    /\ \E written \in BOOLEAN :
         /\ saved' = IF written THEN <<ReportOf(stats)>> ELSE <<>>
         /\ logged' = logged \cup {IF written THEN "report_saved"
                                              ELSE "report_save_failed"}
    /\ pc' = "main_done"
    /\ UNCHANGED <<source, csv_rows, rowIdx, recipients, i, stats, max_retries, attempt,
                   retval, openConns, outcomes, waits, sendLog, results, pauses>>

(***************************************************************************)
(* Specifications                                                          *)
(***************************************************************************)
InitLocals ==
    /\ rowIdx = 1
    /\ i = 0
    /\ stats = NoStats
    /\ attempt = 0
    /\ retval = FALSE
    /\ openConns = 0
    /\ outcomes = <<>>
    /\ waits = <<>>
    /\ sendLog = <<>>
    /\ results = <<>>
    /\ pauses = {}
    /\ logged = {}
    /\ printed = <<>>
    /\ saved = <<>>

InitFile ==
    \/ /\ source = "ok"
       /\ csv_rows \in SeqsUpTo(RowValues, MaxRows)
    \/ /\ source \in {"missing", "unreadable"}
       /\ csv_rows = <<>>

\* main(): the whole run
Init ==
    /\ pc = "main_auth"
    /\ InitFile
    /\ recipients = <<>>
    /\ max_retries = DefaultMaxRetries
    /\ InitLocals

Next ==
    \/ MainAuth \/ MainCsv \/ LoadOpen \/ LoadRow \/ LoadReturn \/ MainConfirm
    \/ BulkStart \/ BulkLoop \/ BulkRender
    \/ RetryLoop \/ RetryConnect \/ RetrySession \/ RetryWake
    \/ BulkAccount \/ BulkWake \/ MainReport

Spec == Init /\ [][Next]_vars

\* read_recipients_from_csv called on its own
InitLoad ==
    /\ pc = "load_open"
    /\ InitFile
    /\ recipients = <<>>
    /\ max_retries = DefaultMaxRetries
    /\ InitLocals

NextLoad == LoadOpen \/ LoadRow \/ LoadReturn

SpecLoad == InitLoad /\ [][NextLoad]_vars

\* send_bulk_emails called on its own, with any list of records
InitBulk ==
    /\ pc = "bulk_start"
    /\ source = "ok"
    /\ csv_rows = <<>>
    /\ recipients \in SeqsUpTo(RecipientValues, MaxRecipients)
    /\ max_retries = DefaultMaxRetries
    /\ InitLocals

NextBulk ==
    \/ BulkStart \/ BulkLoop \/ BulkRender
    \/ RetryLoop \/ RetryConnect \/ RetrySession \/ RetryWake
    \/ BulkAccount \/ BulkWake

SpecBulk == InitBulk /\ [][NextBulk]_vars

\* the single thread always takes its next step
LiveBulk == SpecBulk /\ WF_vars(NextBulk)

\* send_email_with_retry called on its own, with any max_retries
InitRetry ==
    /\ pc = "retry_loop"
    /\ source = "ok"
    /\ csv_rows = <<>>
    /\ recipients = <<>>
    /\ max_retries \in -1..MaxRetriesBound
    /\ InitLocals

NextRetry == RetryLoop \/ RetryConnect \/ RetrySession \/ RetryWake

SpecRetry == InitRetry /\ [][NextRetry]_vars

(***************************************************************************)
(* Vocabulary of the properties, stated without the operators above        *)
(***************************************************************************)
\* the record has every field the templates and the To header need
Renderable(r) == {"name", "email"} \subseteq DOMAIN r

\* the address send_bulk_emails reports for a record
AddressOf(r) == IF "email" \in DOMAIN r THEN r.email ELSE Unknown

\* recipient j was processed and its render or its delivery failed
FailedAt(j) == ~Renderable(recipients[j]) \/ ~results[j].sent

\* the addresses of the failed recipients among the first k, in input order
RECURSIVE FailedAddresses(_)
FailedAddresses(k) ==
    IF k = 0 THEN <<>>
    ELSE IF FailedAt(k)
         THEN Append(FailedAddresses(k - 1), AddressOf(recipients[k]))
         ELSE FailedAddresses(k - 1)

\* a failure that a later attempt may not repeat: neither a refusal of the
\* recipient or the sender nor a rejected login
Transient(o) == o = "OtherError"

AllTransient(os) == \A k \in 1..Len(os) : Transient(os[k])

(***************************************************************************)
(* Properties                                                              *)
(***************************************************************************)
\* C1: the statistics send_bulk_emails returns satisfy success + failed = total,
\* total is the number of input recipients, and failed_recipients has exactly
\* failed entries.
StatsAddUp ==
    pc = "bulk_return" =>
        /\ stats.total = Len(recipients)
        /\ stats.success + stats.failed = stats.total
        /\ Len(stats.failed_recipients) = stats.failed

\* a returned batch with a render failure, a delivery failure and a success
StatsAddUpWitness ==
    /\ pc = "bulk_return"
    /\ stats.success >= 1
    /\ \E j \in 1..Len(results) : ~results[j].rendered
    /\ \E j \in 1..Len(results) : results[j].rendered /\ ~results[j].sent

\* C2: every recipient is counted exactly once, as a success or as a failure
\* with its address appended once; the returned failed_recipients is the
\* subsequence, in input order, of the addresses whose render or delivery failed.
ExactlyOneOutcome ==
    /\ Len(results) <= Len(recipients)
    /\ pc \notin {"main_auth", "main_csv", "load_open", "load_rows", "load_return",
                  "bulk_start", "main_exit"}
         => /\ stats.success + stats.failed = Len(results)
            /\ stats.success = Cardinality({j \in 1..Len(results) : ~FailedAt(j)})
            /\ stats.failed_recipients = FailedAddresses(Len(results))
    /\ pc = "bulk_return" => Len(results) = Len(recipients)

\* a returned batch with two failures of different addresses and a success
ExactlyOneOutcomeWitness ==
    /\ pc = "bulk_return"
    /\ stats.success = 1
    /\ Len(stats.failed_recipients) = 2
    /\ stats.failed_recipients[1] # stats.failed_recipients[2]

\* C3: when every attempt ends in a transient failure, a call with
\* max_retries >= 1 makes exactly max_retries attempts, returns False, and
\* sleeps 2^(k-1) seconds after attempt k for k < max_retries and not after the
\* last, sum(2^i for i in 0..max_retries-2) seconds in all.
RetryExhaustsWithBackoff ==
    (pc = "retry_return" /\ max_retries >= 1 /\ AllTransient(outcomes)) =>
        /\ Len(outcomes) = max_retries
        /\ Len(sendLog) = max_retries
        /\ retval = FALSE
        /\ waits = [k \in 1..(max_retries - 1) |-> [after |-> k, secs |-> 2 ^ (k - 1)]]
        /\ SeqSum([k \in 1..Len(waits) |-> waits[k].secs]) = 2 ^ (max_retries - 1) - 1

\* three transient failures of a call with max_retries = 3
RetryExhaustsWitness ==
    /\ pc = "retry_return"
    /\ max_retries = 3
    /\ outcomes = <<"OtherError", "OtherError", "OtherError">>

\* C4: a refused recipient or sender ends the call at once: it is the last
\* attempt, the call returns False, and no sleep follows it.
RefusalStopsRetry ==
    \A k \in 1..Len(outcomes) :
        outcomes[k] \in {"SMTPRecipientsRefused", "SMTPSenderRefused"} =>
            /\ k = Len(outcomes)
            /\ Len(sendLog) = k
            /\ pc = "retry_return"
            /\ retval = FALSE
            /\ \A w \in 1..Len(waits) : waits[w].after < k

\* the sender is refused on the very first attempt
RefusalStopsRetryWitness ==
    /\ pc = "retry_return"
    /\ max_retries >= 2
    /\ outcomes = <<"SMTPSenderRefused">>

\* C5: an attempt that ends in a refused recipient, a refused sender or a
\* rejected login is never followed by another attempt.
RejectionNeverRetried ==
    \A k \in 1..Len(outcomes) :
        outcomes[k] \in {"SMTPRecipientsRefused", "SMTPSenderRefused",
                         "SMTPAuthenticationError"} => k = Len(outcomes)

\* C6 as stated: when send_bulk_emails returns it has paused after every
\* recipient but the last, whatever that recipient's outcome.
PauseAfterEveryNonLast ==
    pc = "bulk_return" => pauses = 1..(Len(recipients) - 1)

\* C6 as amended: send_bulk_emails pauses after a processed recipient exactly
\* when it is not the last and its message was rendered (sent or not); a render
\* failure is followed by no pause, and so is the last recipient.
PauseAfterRenderedNonLast ==
    /\ pauses = {j \in 1..Len(results) : j < Len(recipients) /\ Renderable(recipients[j])}
    /\ pc = "bulk_delay" => i \in pauses /\ Len(results) = i
    /\ pc = "bulk_return" => Len(results) = Len(recipients)

\* a returned batch with a pause after a failed delivery and none after a
\* render failure that was not the last
PauseWitness ==
    /\ pc = "bulk_return"
    /\ \E j \in 1..(Len(recipients) - 1) : j \notin pauses /\ ~results[j].rendered
    /\ \E j \in 1..(Len(recipients) - 1) : j \in pauses /\ ~results[j].sent

\* C7: no attempt is ever made for a recipient whose record cannot be rendered;
\* the step that finds the render failure counts the recipient as failed,
\* appends its address and moves on to the next recipient.
RenderFailureSkipsSend ==
    /\ [](\A j \in 1..Len(recipients) :
             ~Renderable(recipients[j]) => CountOf(sendLog, j) = 0)
    /\ [][(pc = "bulk_render" /\ ~Renderable(recipients[i])) =>
             /\ stats'.failed = stats.failed + 1
             /\ stats'.success = stats.success
             /\ stats'.failed_recipients =
                    Append(stats.failed_recipients, AddressOf(recipients[i]))
             /\ sendLog' = sendLog
             /\ i' = i + 1
             /\ pc' = "bulk_loop"]_vars

\* a render failure was counted and the recipient after it was then sent to
RenderFailureWitness ==
    \E j \in 1..(Len(results) - 1) :
        /\ ~Renderable(recipients[j])
        /\ results[j + 1].sent
        /\ CountOf(stats.failed_recipients, AddressOf(recipients[j])) >= 1

\* C8: send_bulk_emails always returns, and when it does every recipient of
\* the input has been processed, in order, whatever failed on the way.
BatchCompletes ==
    <>(/\ pc = "bulk_return"
       /\ Len(results) = Len(recipients)
       /\ \A j \in 1..Len(recipients) : results[j].email = AddressOf(recipients[j]))

\* a returned batch of three: a render failure, then an exhausted series of
\* transient failures, then a refusal on the first attempt
BatchCompletesWitness ==
    /\ pc = "bulk_return"
    /\ Len(results) = 3
    /\ ~results[1].rendered
    /\ results[2].rendered /\ ~results[2].sent
    /\ CountOf(sendLog, 2) = DefaultMaxRetries
    /\ results[3].rendered /\ ~results[3].sent
    /\ CountOf(sendLog, 3) = 1

\* C9: once bulk sending has started the run ends only after the report: the
\* report shows the final statistics of the fully processed batch, is printed
\* only after the last recipient, and a failed write of the report file is
\* logged while the run still completes.  A run that stops without a report
\* never started sending.
RunConcludesWithReport ==
    /\ ~ENABLED Next => pc \in {"main_done", "main_exit"}
    /\ pc = "main_exit" => /\ stats = NoStats
                           /\ results = <<>>
                           /\ sendLog = <<>>
    /\ pc = "main_done" =>
          /\ Len(results) = Len(recipients)
          /\ stats.total = Len(recipients)
          /\ Len(printed) = 1
          /\ printed[1].total = stats.total
          /\ printed[1].success = stats.success
          /\ printed[1].failed = stats.failed
          /\ printed[1].failed_recipients = stats.failed_recipients
          /\ \/ saved = printed /\ "report_saved" \in logged
             \/ saved = <<>> /\ "report_save_failed" \in logged
    /\ printed # <<>> => pc = "main_done"
    /\ "report_save_failed" \in logged => pc = "main_done"

\* every recipient failed, the report file could not be written, the run completed
RunConcludesWitness ==
    /\ pc = "main_done"
    /\ stats.total >= 2
    /\ stats.failed = stats.total
    /\ printed[1].failed = stats.total
    /\ "report_save_failed" \in logged

\* a row the loader has to keep: email present, non-empty and with an '@'
KeptRow(row) ==
    /\ "email" \in DOMAIN row
    /\ row.email # <<>>
    /\ \E k \in 1..Len(row.email) : row.email[k] = "@"

\* C10: read_recipients_from_csv returns exactly the rows whose email is
\* present, non-empty and contains '@', in input order, verbatim, duplicates
\* included; the other rows are dropped and do not stop the loading.
LoaderKeepsValidRows ==
    /\ pc = "load_return" =>
          recipients = SelectSeq(IF source = "ok" THEN csv_rows ELSE <<>>, KeptRow)
    /\ pc = "load_rows" =>
          recipients = SelectSeq(SubSeq(csv_rows, 1, rowIdx - 1), KeptRow)

\* a kept row, a row without '@', then the kept row again: both copies loaded
LoaderWitness ==
    /\ pc = "load_return"
    /\ Len(csv_rows) = 3
    /\ KeptRow(csv_rows[1])
    /\ "email" \in DOMAIN csv_rows[2] /\ csv_rows[2].email = <<"a">>
    /\ csv_rows[3] = csv_rows[1]
    /\ recipients = <<csv_rows[1], csv_rows[1]>>

\* send_bulk_emails is busy with recipient i: rendering it, or inside the
\* send_email_with_retry call for it, or about to count its result
BusyWithCurrent ==
    pc \in {"bulk_render", "retry_loop", "retry_connect", "retry_session",
            "retry_sleep", "retry_return"}

\* C11: recipients are processed one after the other in input order: attempts
\* are made for non-decreasing indices and only for the recipient in hand;
\* while recipient i is rendered, sent to or waited for, exactly the i-1
\* recipients before it have been counted, and when its render begins every
\* attempt so far belongs to an earlier recipient and no backoff is pending.
StrictlySequential ==
    /\ \A a, b \in 1..Len(sendLog) : a <= b => sendLog[a] <= sendLog[b]
    /\ \A a \in 1..Len(sendLog) : sendLog[a] \in 1..Len(recipients) /\ sendLog[a] <= i
    /\ \A j \in 1..Len(results) : results[j].email = AddressOf(recipients[j])
    /\ BusyWithCurrent =>
          /\ i \in 1..Len(recipients)
          /\ Len(results) = i - 1
          /\ pauses \subseteq 1..(i - 1)
    /\ pc = "bulk_render" =>
          /\ \A a \in 1..Len(sendLog) : sendLog[a] < i
          /\ waits = <<>>
    /\ pc = "bulk_delay" => Len(results) = i /\ i \in pauses
    /\ pc = "bulk_loop" => Len(results) = i - 1 /\ pauses \subseteq 1..(i - 1)

\* three attempts with their two backoff waits for the first recipient, all
\* before the single attempt for the second
StrictlySequentialWitness ==
    /\ pc = "bulk_return"
    /\ Len(results) >= 2
    /\ Len(sendLog) = 4
    /\ sendLog = <<1, 1, 1, 2>>
    /\ 1 \in pauses

\* C12: a call with max_retries >= 1 returns True exactly when one of its
\* attempts is Sent and every attempt before that one was a transient failure;
\* it makes at most max_retries attempts and none after a Sent.
SuccessIffSentAfterTransients ==
    (pc = "retry_return" /\ max_retries >= 1) =>
        /\ retval = (\E k \in 1..Len(outcomes) :
                        /\ k <= max_retries
                        /\ outcomes[k] = "Sent"
                        /\ \A m \in 1..(k - 1) : Transient(outcomes[m]))
        /\ Len(outcomes) <= max_retries
        /\ \A k \in 1..Len(outcomes) : outcomes[k] = "Sent" => k = Len(outcomes)

\* C13: at most one connection is open at any time, and one is open exactly
\* while an attempt is in its session: each attempt opens its own connection,
\* which is closed when the attempt ends, whatever its outcome; none is open
\* during a backoff wait, during the delay between recipients, or once
\* send_bulk_emails has returned.
OneConnectionPerAttempt ==
    /\ openConns \in {0, 1}
    /\ (openConns = 1) = (pc = "retry_session")
    /\ pc \in {"retry_connect", "retry_sleep", "bulk_delay", "bulk_return"}
          => openConns = 0

\* the first recipient was sent to, the delay has passed, and the second is in
\* the backoff wait after an attempt whose login was rejected: nothing is open
OneConnectionWitness ==
    /\ pc = "retry_sleep"
    /\ i = 2
    /\ results[1].sent
    /\ 1 \in pauses
    /\ outcomes = <<"SMTPAuthenticationError">>
    /\ openConns = 0

\* C14: a call with max_retries <= 0 goes from the loop head straight to the
\* return: it makes no attempt, opens no connection, sleeps for no backoff,
\* emits no log event of an attempt (sent, refused, retry, gave up), and
\* returns False.
NoAttemptWithoutRetries ==
    max_retries <= 0 =>
        /\ pc \in {"retry_loop", "retry_return"}
        /\ outcomes = <<>>
        /\ sendLog = <<>>
        /\ waits = <<>>
        /\ openConns = 0
        /\ logged \cap {"sent", "recipient_refused", "sender_refused",
                        "retry_warning", "gave_up"} = {}
        /\ pc = "retry_return" => retval = FALSE

\* a call with max_retries = 0 has returned
NoAttemptWitness ==
    /\ pc = "retry_return"
    /\ max_retries = 0
    /\ retval = FALSE
    /\ sendLog = <<>>

====
